---- MODULE Spec2Model ----
(***************************************************************************)
(* The cellar-door MCP server (src/src/server.ts, started by the main() of *)
(* src/unnamed/part_000): eight tools over one session identity slot and   *)
(* one deployment-configured admission policy.                             *)
(*                                                                         *)
(* Values.  JSON texts are records whose DOMAIN is the set of keys the     *)
(* text carries; a text that is no JSON at all is NotJson.  Identifiers    *)
(* (DIDs, keys, platform names) are pairs <<kind, number>>.  Optional      *)
(* strings that are absent are the string "undefined".  Time is counted in *)
(* seconds; the clock moves in steps of TickSeconds.                       *)
(***************************************************************************)
EXTENDS Integers, Sequences, FiniteSets, TLC

VARIABLES
    envPolicy,        \* process.env.CELLAR_DOOR_SERVER_POLICY as main() read it
    serverPolicy,     \* options.serverPolicy of createServer
    sessionIdentity,  \* number of the Identity in the slot, NullIdentity when null
    nextId,           \* how many identities the collaborator has generated
    now,              \* the wall clock the libraries read
    wire,             \* the exit marker JSON text the client holds
    lastCall,         \* the last tool call: tool, arguments, collaborator calls, response
    sessionBase,      \* how many identities had been generated when this session began
    pending           \* the create_exit_marker handlers suspended at `await signMarker`

vars == <<envPolicy, serverPolicy, sessionIdentity, nextId, now, wire, lastCall,
          sessionBase, pending>>

-----------------------------------------------------------------------------
(* Bounds of the model *)

MaxIdentities == 2
MaxClock == 1
MaxTicks == 2

-----------------------------------------------------------------------------
(* Constants of the program *)

undefined == "undefined"
NullIdentity == 0
TickSeconds == 24 * 3600

ExitType == {"Voluntary", "Forced", "Emergency", "KeyCompromise"}
PresetNames == {"OPEN_DOOR", "STRICT", "EMERGENCY_ONLY"}

Has(j, k) == k \in DOMAIN j

-----------------------------------------------------------------------------
(* Signature collaborator and identities (cellar-door-exit) *)

Identity(k) ==
    [did |-> <<"did:key", k>>, publicKey |-> <<"pub", k>>, privateKey |-> <<"priv", k>>]

\* the signed payload of an exit marker: every field but the proof
ExitPayload(m) ==
    [id |-> m.id, subject |-> m.subject, origin |-> m.origin, exitType |-> m.exitType,
     timestamp |-> m.timestamp, reason |-> m.reason, lineage |-> m.lineage,
     stateSnapshot |-> m.stateSnapshot]

\* the content-derived id of a marker
MarkerId(subject, origin, exitType, timestamp) ==
    <<"urn:exit", subject, origin, exitType, timestamp>>

createMarker(subject, origin, exitType, reason, lineage, stateSnapshot) ==
    [id |-> MarkerId(subject, origin, exitType, now), subject |-> subject,
     origin |-> origin, exitType |-> exitType, timestamp |-> now, reason |-> reason,
     lineage |-> lineage, stateSnapshot |-> stateSnapshot]

\* a signature names the key pair that made it and binds the payload it was made over
signMarker(marker, privateKey, publicKey) ==
    [id |-> marker.id, subject |-> marker.subject, origin |-> marker.origin,
     exitType |-> marker.exitType, timestamp |-> marker.timestamp,
     reason |-> marker.reason, lineage |-> marker.lineage,
     stateSnapshot |-> marker.stateSnapshot,
     proof |-> [signer |-> publicKey, by |-> privateKey[2], over |-> marker]]

verifyMarker(m) ==
    /\ m.proof.over = ExitPayload(m)
    /\ m.proof.signer = <<"pub", m.proof.by>>

-----------------------------------------------------------------------------
(* Marker codec (cellar-door-exit toJSON / fromJSON) *)

NotJson == [notJson |-> TRUE]
Garbage == [garbage |-> TRUE]

RequiredKeys == {"id", "subject", "origin", "exitType", "timestamp", "proof"}
OptionalKeys == {"reason", "lineage", "stateSnapshot"}

\* JSON.stringify drops the keys whose value is undefined
toJSON(m) ==
    LET keys == RequiredKeys \cup {k \in OptionalKeys : m[k] # undefined}
    IN  [k \in keys |-> m[k]]

CanDecode(j) ==
    /\ RequiredKeys \subseteq DOMAIN j
    /\ j.exitType \in ExitType

fromJSON(j) ==
    [k \in RequiredKeys \cup OptionalKeys |-> IF Has(j, k) THEN j[k] ELSE undefined]

-----------------------------------------------------------------------------
(* Admission engine and transfer verifier (cellar-door-entry) *)

OPEN_DOOR ==
    [requireVerifiedDeparture |-> TRUE, allowedExitTypes |-> {}, hasMaxAge |-> FALSE,
     maxAgeSeconds |-> 0, requiredModules |-> <<>>]

STRICT ==
    [requireVerifiedDeparture |-> TRUE, allowedExitTypes |-> {"Voluntary"},
     hasMaxAge |-> TRUE, maxAgeSeconds |-> 24 * 3600,
     requiredModules |-> <<"lineage", "stateSnapshot">>]

EMERGENCY_ONLY ==
    [requireVerifiedDeparture |-> TRUE, allowedExitTypes |-> {"Emergency"},
     hasMaxAge |-> FALSE, maxAgeSeconds |-> 0, requiredModules |-> <<>>]

MissingModule(name) ==
    IF name = "lineage" THEN "missing required module: lineage"
    ELSE "missing required module: stateSnapshot"

RECURSIVE MissingModules(_, _)
MissingModules(m, names) ==
    IF names = <<>> THEN <<>>
    ELSE (IF m[Head(names)] = undefined THEN <<MissingModule(Head(names))>> ELSE <<>>)
         \o MissingModules(m, Tail(names))

\* all four checks run, in this order, and every failure is appended
evaluateAdmission(m, policy) ==
    LET signature == IF policy.requireVerifiedDeparture /\ ~verifyMarker(m)
                     THEN <<"signature invalid">> ELSE <<>>
        exitType  == IF policy.allowedExitTypes # {} /\ m.exitType \notin policy.allowedExitTypes
                     THEN <<"exit type not permitted">> ELSE <<>>
        age       == IF policy.hasMaxAge /\ now - m.timestamp > policy.maxAgeSeconds
                     THEN <<"marker expired">> ELSE <<>>
        modules   == MissingModules(m, policy.requiredModules)
        reasons   == signature \o exitType \o age \o modules
    IN  [admitted |-> reasons = <<>>, reasons |-> reasons]

PlatformIdentity == 0

ArrivalPayload(a) ==
    [exitMarkerId |-> a.exitMarkerId, destination |-> a.destination,
     timestamp |-> a.timestamp]

signArrival(payload, k) ==
    [exitMarkerId |-> payload.exitMarkerId, destination |-> payload.destination,
     timestamp |-> payload.timestamp,
     proof |-> [signer |-> <<"pub", k>>, by |-> k, over |-> payload]]

ArrivalKeys == {"exitMarkerId", "destination", "timestamp", "proof"}

WellFormedArrival(a) == ArrivalKeys \subseteq DOMAIN a

verifyArrival(a) ==
    /\ Has(a, "proof")
    /\ WellFormedArrival(a)
    /\ a.proof.over = ArrivalPayload(a)
    /\ a.proof.signer = <<"pub", a.proof.by>>

\* reference and ordering checks only
Continuity(exitMarker, a) ==
    LET reference == IF ~Has(a, "exitMarkerId") \/ a.exitMarkerId # exitMarker.id
                     THEN <<"arrival does not reference this exit">> ELSE <<>>
        ordering  == IF Has(a, "timestamp") /\ a.timestamp < exitMarker.timestamp
                     THEN <<"arrival precedes departure">> ELSE <<>>
        errors    == reference \o ordering
    IN  [valid |-> errors = <<>>, errors |-> errors]

verifyTransfer(exitMarker, a) ==
    LET exitSig    == IF ~verifyMarker(exitMarker)
                      THEN <<"exit marker signature invalid">> ELSE <<>>
        arrivalSig == IF ~verifyArrival(a)
                      THEN <<"arrival marker signature invalid">> ELSE <<>>
        continuity == Continuity(exitMarker, a)
        errors     == exitSig \o arrivalSig \o continuity.errors
    IN  [verified |-> errors = <<>>,
         transferTime |-> IF Has(a, "timestamp") THEN a.timestamp - exitMarker.timestamp
                          ELSE undefined,
         errors |-> errors, continuity |-> continuity]

\* decodes the text again, mints and signs the arrival at the present instant
quickEntry(exitMarkerJson, destination) ==
    LET exitMarker == fromJSON(exitMarkerJson)
        arrival    == signArrival([exitMarkerId |-> exitMarker.id,
                                   destination |-> destination, timestamp |-> now],
                                  PlatformIdentity)
    IN  [arrivalMarker |-> arrival, exitMarker |-> exitMarker,
         continuity |-> Continuity(exitMarker, arrival)]

-----------------------------------------------------------------------------
(* Start-up: main() and createServer *)

EnvValues == PresetNames \cup {undefined, "LOCKDOWN"}

\* opts.serverPolicy as main() sets it from the environment
main(env) ==
    IF env # undefined /\ env \in PresetNames THEN env ELSE undefined

\* every name resolved to the most permissive preset
admissionPresets_allOpen(name) == OPEN_DOOR

admissionPresets(name) ==
    CASE name = "OPEN_DOOR" -> OPEN_DOOR
      [] name = "STRICT" -> STRICT
      [] name = "EMERGENCY_ONLY" -> EMERGENCY_ONLY

-----------------------------------------------------------------------------
(* What a client sends *)

Origins == {<<"did:example", 1>>}
Destinations == {<<"did:example", 2>>}
ExitTypeArgs == ExitType \cup {undefined}
ReasonArgs == {undefined, "Task complete"}
CallerPolicies == PresetNames \cup {undefined, "NO_SUCH_POLICY"}
Times == {t * TickSeconds : t \in 0..MaxTicks}

NoMarkerId == MarkerId(<<"did:example", 0>>, <<"did:example", 0>>, "Forced", 0)

\* the texts a client can put in a marker argument: the marker the last signing
\* tool returned to it, or a text that is no marker
ClientTexts == {wire, Garbage}

\* arrival texts for an exit marker text: arrivals signed by a platform that do
\* or do not reference it, at any instant, with the signature made over the
\* arrival or over another instant; and texts that are no arrival marker
ArrivalTexts(j) ==
    LET ref == IF Has(j, "id") THEN j.id ELSE NoMarkerId
    IN  {NotJson, Garbage}
        \cup {signArrival([exitMarkerId |-> r, destination |-> d, timestamp |-> t],
                          PlatformIdentity) :
                r \in {ref, NoMarkerId}, d \in Destinations, t \in Times}
        \cup {[signArrival([exitMarkerId |-> ref, destination |-> d, timestamp |-> 0],
                           PlatformIdentity) EXCEPT !.timestamp = TickSeconds] :
                d \in Destinations}

\* what verifyTransfer does with an object that is no arrival marker is the
\* collaborator's choice: it returns a record or it throws
ThrowChoices(arrivalMarkerJson) ==
    IF arrivalMarkerJson # NotJson /\ ~WellFormedArrival(arrivalMarkerJson)
    THEN BOOLEAN ELSE {FALSE}

-----------------------------------------------------------------------------
(* Tool responses *)

NoArgs == [none |-> TRUE]
Call(fn, marker, policy, ok) == [fn |-> fn, marker |-> marker, policy |-> policy, ok |-> ok]
Done(tool, args, calls, response) ==
    [tool |-> tool, args |-> args, calls |-> calls, response |-> response]

\* a request whose arguments the tool's zod schema rejects never reaches the handler
InvalidParams == [rpcError |-> "InvalidParams"]

DecodeError == "invalid marker"
EntryError == "entry failed"
TransferError == "transfer verification failed"

\* the key pair returned with the DID
generate_identity_response_withKeys(identity) ==
    [did |-> identity.did, publicKey |-> identity.publicKey,
     privateKey |-> identity.privateKey,
     message |-> "Identity generated and stored server-side for this session."]

\* server.ts 52-67
generate_identity_response(identity) ==
    [did |-> identity.did,
     message |-> "Identity generated and stored server-side for this session."]

\* server.ts 98-113
quick_exit_response(marker, identity, verified) ==
    [marker |-> toJSON(marker), signerDid |-> identity.did, verified |-> verified]

\* the marker returned as it was before signing
create_exit_marker_response_unsigned(signed, identity) ==
    [marker |-> [k \in DOMAIN toJSON(signed) \ {"proof"} |-> signed[k]],
     signerDid |-> identity.did]

\* server.ts 148-162
create_exit_marker_response(signed, identity) ==
    [marker |-> toJSON(signed), signerDid |-> identity.did]

\* cellar-door-exit quickExit: a new identity signs a marker about itself
quickExit(origin, exitType, reason, k) ==
    LET identity == Identity(k)
        marker   == createMarker(identity.did, origin,
                                 IF exitType = undefined THEN "Voluntary" ELSE exitType,
                                 reason, undefined, undefined)
    IN  [marker |-> signMarker(marker, identity.privateKey, identity.publicKey),
         identity |-> identity]

\* every marker that decodes reported as valid
verify_exit_marker_handler_decodeOnly(markerJson) ==
    IF ~CanDecode(markerJson)
    THEN [calls |-> <<Call("fromJSON", NoMarkerId, undefined, FALSE)>>,
          response |-> [valid |-> FALSE, error |-> DecodeError, isError |-> TRUE]]
    ELSE LET marker == fromJSON(markerJson)
         IN  [calls |-> <<Call("fromJSON", marker.id, undefined, TRUE)>>,
              response |-> [valid |-> TRUE, subject |-> marker.subject,
                            exitType |-> marker.exitType,
                            timestamp |-> marker.timestamp, id |-> marker.id]]

\* server.ts 173-217
verify_exit_marker_handler(markerJson) ==
    IF ~CanDecode(markerJson)
    THEN [calls |-> <<Call("fromJSON", NoMarkerId, undefined, FALSE)>>,
          response |-> [valid |-> FALSE, error |-> DecodeError, isError |-> TRUE]]
    ELSE LET marker == fromJSON(markerJson)
             valid  == verifyMarker(marker)
         IN  [calls |-> <<Call("fromJSON", marker.id, undefined, TRUE),
                          Call("verifyMarker", marker.id, undefined, valid)>>,
              response |-> [valid |-> valid, subject |-> marker.subject,
                            exitType |-> marker.exitType,
                            timestamp |-> marker.timestamp, id |-> marker.id]]

\* the caller's choice taken before the deployment's
policyName_callerFirst(admissionPolicy) ==
    IF admissionPolicy # undefined THEN admissionPolicy
    ELSE IF serverPolicy # undefined THEN serverPolicy
    ELSE "OPEN_DOOR"

\* server.ts 250
policyName(admissionPolicy) ==
    IF serverPolicy # undefined THEN serverPolicy
    ELSE IF admissionPolicy # undefined THEN admissionPolicy
    ELSE "OPEN_DOOR"

\* a rejection reported as a failure of the tool
verify_and_admit_rejected_asError(admission) ==
    [admitted |-> FALSE, error |-> "admission denied", isError |-> TRUE]

\* a rejection that reports the first failed check only
verify_and_admit_rejected_firstOnly(admission) ==
    [admitted |-> FALSE, reasons |-> SubSeq(admission.reasons, 1, 1)]

\* server.ts 253-266
verify_and_admit_rejected(admission) ==
    [admitted |-> FALSE, reasons |-> admission.reasons]

\* an omitted policy taken as "no policy": the marker goes to quickEntry unchecked
verify_and_admit_handler_skip(exitMarkerJson, destination, admissionPolicy, entryThrows) ==
    LET name == policyName(admissionPolicy)
    IN  IF ~CanDecode(exitMarkerJson)
        THEN [calls |-> <<Call("fromJSON", NoMarkerId, name, FALSE)>>,
              response |-> [admitted |-> FALSE, error |-> DecodeError, isError |-> TRUE]]
        ELSE
          LET exitMarker == fromJSON(exitMarkerJson)
              admission  == IF serverPolicy = undefined /\ admissionPolicy = undefined
                            THEN [admitted |-> TRUE, reasons |-> <<>>]
                            ELSE evaluateAdmission(exitMarker, admissionPresets(name))
              result     == quickEntry(exitMarkerJson, destination)
          IN  IF ~admission.admitted
              THEN [calls |-> <<Call("fromJSON", exitMarker.id, name, TRUE),
                                Call("evaluateAdmission", exitMarker.id, name, FALSE)>>,
                    response |-> [admitted |-> FALSE, reasons |-> admission.reasons]]
              ELSE [calls |-> <<Call("fromJSON", exitMarker.id, name, TRUE),
                                Call("quickEntry", exitMarker.id, name, TRUE)>>,
                    response |-> [admitted |-> TRUE,
                                  arrivalMarker |-> result.arrivalMarker,
                                  exitMarkerId |-> result.exitMarker.id,
                                  continuity |-> result.continuity]]

\* the arrival minted first and the admission evaluated afterwards
verify_and_admit_handler_mintFirst(exitMarkerJson, destination, admissionPolicy, entryThrows) ==
    LET name == policyName(admissionPolicy)
    IN  IF ~CanDecode(exitMarkerJson)
        THEN [calls |-> <<Call("fromJSON", NoMarkerId, name, FALSE)>>,
              response |-> [admitted |-> FALSE, error |-> DecodeError, isError |-> TRUE]]
        ELSE
          LET exitMarker == fromJSON(exitMarkerJson)
              result     == quickEntry(exitMarkerJson, destination)
              admission  == evaluateAdmission(exitMarker, admissionPresets(name))
              calls      == <<Call("fromJSON", exitMarker.id, name, TRUE),
                              Call("quickEntry", exitMarker.id, name, TRUE),
                              Call("evaluateAdmission", exitMarker.id, name,
                                   admission.admitted)>>
          IN  IF ~admission.admitted
              THEN [calls |-> calls,
                    response |-> [admitted |-> FALSE, reasons |-> admission.reasons]]
              ELSE [calls |-> calls,
                    response |-> [admitted |-> TRUE,
                                  arrivalMarker |-> result.arrivalMarker,
                                  exitMarkerId |-> result.exitMarker.id,
                                  continuity |-> result.continuity]]

\* server.ts 247-296; entryThrows: whether the collaborator's quickEntry throws
verify_and_admit_handler(exitMarkerJson, destination, admissionPolicy, entryThrows) ==
    LET name == policyName(admissionPolicy)
    IN  IF ~CanDecode(exitMarkerJson)
        THEN [calls |-> <<Call("fromJSON", NoMarkerId, name, FALSE)>>,
              response |-> [admitted |-> FALSE, error |-> DecodeError, isError |-> TRUE]]
        ELSE
          LET exitMarker == fromJSON(exitMarkerJson)
              admission  == evaluateAdmission(exitMarker, admissionPresets(name))
              checked    == <<Call("fromJSON", exitMarker.id, name, TRUE),
                              Call("evaluateAdmission", exitMarker.id, name,
                                   admission.admitted)>>
          IN  IF ~admission.admitted
              THEN [calls |-> checked, response |-> verify_and_admit_rejected(admission)]
              ELSE IF entryThrows
              THEN [calls |-> Append(checked,
                                     Call("quickEntry", exitMarker.id, name, FALSE)),
                    response |-> [admitted |-> FALSE, error |-> EntryError,
                                  isError |-> TRUE]]
              ELSE
                LET result == quickEntry(exitMarkerJson, destination)
                IN  [calls |-> Append(checked,
                                      Call("quickEntry", result.exitMarker.id, name, TRUE)),
                     response |-> [admitted |-> TRUE,
                                   arrivalMarker |-> result.arrivalMarker,
                                   exitMarkerId |-> result.exitMarker.id,
                                   continuity |-> result.continuity]]

\* server.ts 238-245: admissionPolicy is z.enum(presets).optional()
verify_and_admit_tool(exitMarkerJson, destination, admissionPolicy, entryThrows) ==
    IF admissionPolicy \notin PresetNames \cup {undefined}
    THEN [calls |-> <<>>, response |-> InvalidParams]
    ELSE verify_and_admit_handler(exitMarkerJson, destination, admissionPolicy,
                                  entryThrows)

\* server.ts 317
effectivePolicy(policy) ==
    IF serverPolicy # undefined THEN serverPolicy ELSE policy

\* the result passed on without its reasons
evaluate_admission_response_noReasons(result, effective) ==
    [admitted |-> result.admitted, reasons |-> <<>>, policy |-> effective]

\* server.ts 320-327
evaluate_admission_response(result, effective) ==
    [admitted |-> result.admitted, reasons |-> result.reasons, policy |-> effective]

\* server.ts 314-339
evaluate_admission_handler(exitMarkerJson, policy) ==
    LET effective == effectivePolicy(policy)
    IN  IF ~CanDecode(exitMarkerJson)
        THEN [calls |-> <<Call("fromJSON", NoMarkerId, effective, FALSE)>>,
              response |-> [admitted |-> FALSE, error |-> DecodeError, isError |-> TRUE]]
        ELSE
          LET exitMarker == fromJSON(exitMarkerJson)
              result     == evaluateAdmission(exitMarker, admissionPresets(effective))
          IN  [calls |-> <<Call("fromJSON", exitMarker.id, effective, TRUE),
                           Call("evaluateAdmission", exitMarker.id, effective,
                                result.admitted)>>,
               response |-> evaluate_admission_response(result, effective)]

\* server.ts 308-313: policy is z.enum(presets), not optional
evaluate_admission_tool(exitMarkerJson, policy) ==
    IF policy \notin PresetNames
    THEN [calls |-> <<>>, response |-> InvalidParams]
    ELSE evaluate_admission_handler(exitMarkerJson, policy)

\* the continuity sub-result not passed on: reported as unbroken
verify_transfer_response_noContinuity(record) ==
    [verified |-> record.verified, transferTime |-> record.transferTime,
     errors |-> record.errors, continuity |-> [valid |-> TRUE, errors |-> <<>>]]

\* verified reported from the two signature checks alone
verify_transfer_response_signaturesOnly(record) ==
    [verified |-> \A i \in DOMAIN record.errors :
                    record.errors[i] \notin {"exit marker signature invalid",
                                             "arrival marker signature invalid"},
     transferTime |-> record.transferTime,
     errors |-> record.errors, continuity |-> record.continuity]

\* server.ts 355-370
verify_transfer_response(record) ==
    [verified |-> record.verified, transferTime |-> record.transferTime,
     errors |-> record.errors, continuity |-> record.continuity]

\* server.ts 350-383; transferThrows: whether the collaborator's verifyTransfer
\* throws on an object that is no arrival marker
verify_transfer_handler(exitMarkerJson, arrivalMarkerJson, transferThrows) ==
    IF ~CanDecode(exitMarkerJson)
    THEN [calls |-> <<Call("fromJSON", NoMarkerId, undefined, FALSE)>>,
          response |-> [verified |-> FALSE, error |-> DecodeError, isError |-> TRUE]]
    ELSE
      LET exitMarker == fromJSON(exitMarkerJson)
          decoded    == <<Call("fromJSON", exitMarker.id, undefined, TRUE)>>
      IN  IF arrivalMarkerJson = NotJson
          THEN [calls |-> Append(decoded,
                                 Call("JSON.parse", exitMarker.id, undefined, FALSE)),
                response |-> [verified |-> FALSE, error |-> "Unexpected token",
                              isError |-> TRUE]]
          ELSE IF ~WellFormedArrival(arrivalMarkerJson) /\ transferThrows
          THEN [calls |-> decoded \o
                          <<Call("JSON.parse", exitMarker.id, undefined, TRUE),
                            Call("verifyTransfer", exitMarker.id, undefined, FALSE)>>,
                response |-> [verified |-> FALSE, error |-> TransferError,
                              isError |-> TRUE]]
          ELSE
            LET record == verifyTransfer(exitMarker, arrivalMarkerJson)
            IN  [calls |-> decoded \o
                           <<Call("JSON.parse", exitMarker.id, undefined, TRUE),
                             Call("verifyTransfer", exitMarker.id, undefined, TRUE)>>,
                 response |-> verify_transfer_response(record)]

\* server.ts 391-419
list_admission_policies_response ==
    [policies |-> [OPEN_DOOR |-> OPEN_DOOR, STRICT |-> STRICT,
                   EMERGENCY_ONLY |-> EMERGENCY_ONLY]]

-----------------------------------------------------------------------------
(* The tools *)

generate_identity ==
    /\ nextId < MaxIdentities
    /\ LET identity == Identity(nextId + 1)
       IN  /\ nextId' = nextId + 1
           /\ sessionIdentity' = nextId + 1
           /\ lastCall' = Done("generate_identity", NoArgs, <<>>,
                               generate_identity_response(identity))
    /\ UNCHANGED <<envPolicy, serverPolicy, now, wire>>
    /\ UNCHANGED <<sessionBase, pending>>

\* the continuation after `await verifyMarker` reads only the handler's locals
quick_exit ==
    /\ nextId < MaxIdentities
    /\ \E origin \in Origins, exitType \in ExitTypeArgs, reason \in ReasonArgs :
         LET result   == quickExit(origin, exitType, reason, nextId + 1)
             verified == verifyMarker(result.marker)
             response == quick_exit_response(result.marker, result.identity, verified)
         IN  /\ nextId' = nextId + 1
             /\ sessionIdentity' = nextId + 1
             /\ lastCall' = Done("quick_exit",
                                 [origin |-> origin, exitType |-> exitType,
                                  reason |-> reason],
                                 <<>>, response)
             /\ wire' = response.marker
    /\ UNCHANGED <<envPolicy, serverPolicy, now>>
    /\ UNCHANGED <<sessionBase, pending>>

\* an identity generated by every call
create_exit_marker_slot_alwaysNew == nextId + 1

\* server.ts 130-132: the identity in the slot once the check has run
create_exit_marker_slot ==
    IF sessionIdentity = NullIdentity THEN nextId + 1 ELSE sessionIdentity

\* one request at a time: the handler runs from its first line to its return
create_exit_marker ==
    /\ sessionIdentity = NullIdentity => nextId < MaxIdentities
    /\ \E origin \in Origins, exitType \in ExitTypeArgs, reason \in ReasonArgs :
         LET slot   == create_exit_marker_slot
             et     == IF exitType = undefined THEN "Voluntary" ELSE exitType
             marker == createMarker(origin, origin, et, undefined, undefined, undefined)
             signed == signMarker(marker, Identity(slot).privateKey,
                                  Identity(slot).publicKey)
             response == create_exit_marker_response(signed, Identity(slot))
         IN  /\ sessionIdentity' = slot
             /\ nextId' = IF sessionIdentity = NullIdentity THEN nextId + 1 ELSE nextId
             /\ lastCall' = Done("create_exit_marker",
                                 [origin |-> origin, exitType |-> exitType,
                                  reason |-> reason],
                                 <<>>, response)
             /\ wire' = response.marker
    /\ UNCHANGED <<envPolicy, serverPolicy, now>>
    /\ UNCHANGED <<sessionBase, pending>>

\* the slot emptied when the marker text does not decode
verify_exit_marker_clearing ==
    /\ \E markerJson \in ClientTexts :
         LET h == verify_exit_marker_handler(markerJson)
         IN  /\ lastCall' = Done("verify_exit_marker", [markerJson |-> markerJson],
                                 h.calls, h.response)
             /\ sessionIdentity' = IF Has(h.response, "isError") THEN NullIdentity
                                   ELSE sessionIdentity
    /\ UNCHANGED <<envPolicy, serverPolicy, nextId, now, wire, sessionBase, pending>>

verify_exit_marker ==
    /\ \E markerJson \in ClientTexts :
         LET h == verify_exit_marker_handler(markerJson)
         IN  lastCall' = Done("verify_exit_marker", [markerJson |-> markerJson],
                              h.calls, h.response)
    /\ UNCHANGED <<envPolicy, serverPolicy, sessionIdentity, nextId, now, wire>>
    /\ UNCHANGED <<sessionBase, pending>>

verify_and_admit ==
    /\ \E exitMarkerJson \in ClientTexts, destination \in Destinations,
          admissionPolicy \in CallerPolicies, entryThrows \in BOOLEAN :
         LET args == [exitMarkerJson |-> exitMarkerJson, destination |-> destination,
                      admissionPolicy |-> admissionPolicy]
             h    == verify_and_admit_tool(exitMarkerJson, destination,
                                           admissionPolicy, entryThrows)
         IN  lastCall' = Done("verify_and_admit", args, h.calls, h.response)
    /\ UNCHANGED <<envPolicy, serverPolicy, sessionIdentity, nextId, now, wire>>
    /\ UNCHANGED <<sessionBase, pending>>

evaluate_admission ==
    /\ \E exitMarkerJson \in ClientTexts, policy \in CallerPolicies :
         LET args == [exitMarkerJson |-> exitMarkerJson, policy |-> policy]
             h    == evaluate_admission_tool(exitMarkerJson, policy)
         IN  lastCall' = Done("evaluate_admission", args, h.calls, h.response)
    /\ UNCHANGED <<envPolicy, serverPolicy, sessionIdentity, nextId, now, wire>>
    /\ UNCHANGED <<sessionBase, pending>>

verify_transfer ==
    /\ \E exitMarkerJson \in ClientTexts :
         \E arrivalMarkerJson \in ArrivalTexts(exitMarkerJson) :
         \E transferThrows \in ThrowChoices(arrivalMarkerJson) :
           LET h == verify_transfer_handler(exitMarkerJson, arrivalMarkerJson,
                                            transferThrows)
           IN  lastCall' = Done("verify_transfer",
                                [exitMarkerJson |-> exitMarkerJson,
                                 arrivalMarkerJson |-> arrivalMarkerJson],
                                h.calls, h.response)
    /\ UNCHANGED <<envPolicy, serverPolicy, sessionIdentity, nextId, now, wire>>
    /\ UNCHANGED <<sessionBase, pending>>

list_admission_policies ==
    /\ lastCall' = Done("list_admission_policies", NoArgs, <<>>,
                        list_admission_policies_response)
    /\ UNCHANGED <<envPolicy, serverPolicy, sessionIdentity, nextId, now, wire>>
    /\ UNCHANGED <<sessionBase, pending>>

Tick ==
    /\ now < MaxClock * TickSeconds
    /\ now' = now + TickSeconds
    /\ UNCHANGED <<envPolicy, serverPolicy, sessionIdentity, nextId, wire, lastCall>>
    /\ UNCHANGED <<sessionBase, pending>>

-----------------------------------------------------------------------------
(* The session: any sequence of tool calls, one at a time *)

NoCall == Done("none", NoArgs, <<>>, [none |-> TRUE])

\* the deployments the session is followed under
SessionEnvValues == {undefined, "STRICT"}

Init ==
    /\ envPolicy \in SessionEnvValues
    /\ serverPolicy = main(envPolicy)
    /\ sessionIdentity = NullIdentity
    /\ nextId = 0
    /\ now = 0
    /\ wire = Garbage
    /\ lastCall = NoCall
    /\ sessionBase = 0
    /\ pending = <<>>

Next ==
    \/ generate_identity
    \/ quick_exit
    \/ create_exit_marker
    \/ verify_exit_marker
    \/ verify_and_admit
    \/ evaluate_admission
    \/ verify_transfer
    \/ list_admission_policies
    \/ Tick

Spec == Init /\ [][Next]_vars

-----------------------------------------------------------------------------
(* The entry tools on markers other agents made: every exit marker content,   *)
(* signed, and then left alone or changed in one field                       *)

TamperFields ==
    {"none", "id", "subject", "origin", "exitType", "timestamp", "reason", "lineage",
     "stateSnapshot"}

ExternalMarker(exitType, timestamp, lineage, stateSnapshot) ==
    LET subject == <<"did:key", 1>>
        origin  == <<"did:example", 1>>
        marker  == [id |-> MarkerId(subject, origin, exitType, timestamp),
                    subject |-> subject, origin |-> origin, exitType |-> exitType,
                    timestamp |-> timestamp, reason |-> undefined,
                    lineage |-> lineage, stateSnapshot |-> stateSnapshot]
    IN  signMarker(marker, Identity(1).privateKey, Identity(1).publicKey)

Tamper(m, field) ==
    CASE field = "none" -> m
      [] field = "id" -> [m EXCEPT !.id = NoMarkerId]
      [] field = "exitType" ->
            [m EXCEPT !.exitType = IF @ = "Voluntary" THEN "Emergency" ELSE "Voluntary"]
      [] field = "timestamp" ->
            [m EXCEPT !.timestamp = IF @ = 0 THEN TickSeconds ELSE 0]
      [] field = "subject" -> [m EXCEPT !.subject = <<"did:key", 2>>]
      [] field = "origin" -> [m EXCEPT !.origin = <<"did:example", 3>>]
      [] field = "reason" -> [m EXCEPT !.reason = "changed"]
      [] field = "lineage" ->
            [m EXCEPT !.lineage = IF @ = undefined THEN "lineage" ELSE undefined]
      [] field = "stateSnapshot" ->
            [m EXCEPT !.stateSnapshot = IF @ = undefined THEN "snapshot" ELSE undefined]

ExternalTexts ==
    {toJSON(Tamper(ExternalMarker(exitType, timestamp, lineage, stateSnapshot), field)) :
        exitType \in ExitType, timestamp \in Times,
        lineage \in {undefined, "lineage"}, stateSnapshot \in {undefined, "snapshot"},
        field \in TamperFields}

InitEntry ==
    /\ envPolicy \in EnvValues
    /\ serverPolicy = main(envPolicy)
    /\ sessionIdentity = NullIdentity
    /\ nextId = 0
    /\ now \in Times
    /\ wire \in ExternalTexts
    /\ lastCall = NoCall
    /\ sessionBase = 0
    /\ pending = <<>>

\* one request on the marker drawn
NextEntry ==
    \/ lastCall = NoCall /\ verify_exit_marker
    \/ lastCall = NoCall /\ verify_and_admit
    \/ lastCall = NoCall /\ evaluate_admission
    \/ lastCall = NoCall /\ verify_transfer
    \/ lastCall = NoCall /\ list_admission_policies

SpecEntry == InitEntry /\ [][NextEntry]_vars

-----------------------------------------------------------------------------
(* Sessions and requests in flight.  A session is one createServer() call:   *)
(* main() makes one per process and serves one transport with it.  Within a  *)
(* session the handlers of several requests interleave at their awaits:      *)
(* create_exit_marker runs from its first line to `await signMarker(...)`    *)
(* without interruption, and its continuation runs later.                    *)

MaxPending == 2

ConcurrentExitTypeArgs == {undefined, "Emergency"}

\* the slot declared outside createServer: the new server finds the old identity
createServer_sessionIdentity_shared == sessionIdentity

\* server.ts 42
createServer_sessionIdentity == NullIdentity

\* the process ends with its session, and the next session is served by a new
\* process: main() runs again, under the same deployment configuration
createServer ==
    /\ serverPolicy' = main(envPolicy)
    /\ sessionIdentity' = createServer_sessionIdentity
    /\ sessionBase' = nextId
    /\ pending' = <<>>
    /\ lastCall' = NoCall
    /\ UNCHANGED <<envPolicy, nextId, now, wire>>

\* server.ts 129-146: from the handler's first line to the call of signMarker,
\* whose arguments are the key pair in the slot at that moment
create_exit_marker_call ==
    /\ Len(pending) < MaxPending
    /\ create_exit_marker_slot <= MaxIdentities
    /\ \E origin \in Origins, exitType \in ConcurrentExitTypeArgs,
          reason \in ReasonArgs :
         LET slot   == create_exit_marker_slot
             et     == IF exitType = undefined THEN "Voluntary" ELSE exitType
             marker == createMarker(origin, origin, et, undefined, undefined, undefined)
             signed == signMarker(marker, Identity(slot).privateKey,
                                  Identity(slot).publicKey)
         IN  /\ sessionIdentity' = slot
             /\ nextId' = IF slot > nextId THEN slot ELSE nextId
             /\ pending' = Append(pending,
                                  [args |-> [origin |-> origin, exitType |-> exitType,
                                             reason |-> reason],
                                   signed |-> signed])
    /\ UNCHANGED <<envPolicy, serverPolicy, now, wire, lastCall, sessionBase>>

\* server.ts 148-162: the continuation after the await, which reads
\* sessionIdentity.did from the slot as it is by then
create_exit_marker_return ==
    /\ \E i \in DOMAIN pending :
         LET response == create_exit_marker_response(pending[i].signed,
                                                     Identity(sessionIdentity))
         IN  /\ lastCall' = Done("create_exit_marker", pending[i].args, <<>>, response)
             /\ wire' = response.marker
             /\ pending' = SubSeq(pending, 1, i - 1)
                            \o SubSeq(pending, i + 1, Len(pending))
    /\ UNCHANGED <<envPolicy, serverPolicy, sessionIdentity, nextId, now, sessionBase>>

\* the deployment the sessions are followed under
InitSessions ==
    /\ envPolicy = undefined
    /\ serverPolicy = main(envPolicy)
    /\ sessionIdentity = NullIdentity
    /\ nextId = 0
    /\ now = 0
    /\ wire = Garbage
    /\ lastCall = NoCall
    /\ sessionBase = 0
    /\ pending = <<>>

\* the tools that touch the identity slot, with requests overlapping, over
\* successive sessions
NextSessions ==
    \/ generate_identity
    \/ quick_exit
    \/ create_exit_marker_call
    \/ create_exit_marker_return
    \/ createServer

SpecSessions == InitSessions /\ [][NextSessions]_vars

\* one session in which every request is a create_exit_marker
NextRace ==
    \/ create_exit_marker_call
    \/ create_exit_marker_return
    \/ Tick

SpecRace == InitSessions /\ [][NextRace]_vars

-----------------------------------------------------------------------------
(* Reading the last call *)

Tool == lastCall.tool
Args == lastCall.args
Calls == lastCall.calls
Response == lastCall.response

\* the request reached its handler (the schema accepted its arguments)
Handled == ~Has(Response, "rpcError")
IsError == Has(Response, "isError")

\* the handler's quickEntry threw
EntryThrew == \E i \in DOMAIN Calls : Calls[i].fn = "quickEntry" /\ ~Calls[i].ok

\* the calls of the last handler that evaluated the admission policy
Evaluations == {i \in DOMAIN Calls : Calls[i].fn = "evaluateAdmission"}

-----------------------------------------------------------------------------
(* C1: with a serverPolicy configured, verify_and_admit and evaluate_admission *)
(* evaluate the marker under serverPolicy, and the response is the one every  *)
(* other caller policy value the tool's schema accepts would have got (the    *)
(* three presets, and for verify_and_admit also the omitted policy).          *)
C1_ServerPolicyOverridesAccepted ==
    serverPolicy # undefined =>
      /\ (Tool = "verify_and_admit" /\ Handled) =>
           /\ \A i \in DOMAIN Calls : Calls[i].policy = serverPolicy
           /\ \A p \in PresetNames \cup {undefined} :
                verify_and_admit_tool(Args.exitMarkerJson, Args.destination, p,
                                      EntryThrew).response = Response
      /\ (Tool = "evaluate_admission" /\ Handled) =>
           /\ \A i \in DOMAIN Calls : Calls[i].policy = serverPolicy
           /\ Has(Response, "policy") => Response.policy = serverPolicy
           /\ \A p \in PresetNames :
                evaluate_admission_tool(Args.exitMarkerJson, p).response = Response

\* C1 as stated: every caller policy value, the omitted one included, gets the
\* same response from both tools
C1_AnyCallerPolicyIncludingOmitted ==
    serverPolicy # undefined =>
      /\ (Tool = "verify_and_admit" /\ Handled) =>
           \A p \in PresetNames \cup {undefined} :
             verify_and_admit_tool(Args.exitMarkerJson, Args.destination, p,
                                   EntryThrew).response = Response
      /\ (Tool = "evaluate_admission" /\ Handled) =>
           \A p \in PresetNames \cup {undefined} :
             evaluate_admission_tool(Args.exitMarkerJson, p).response = Response

\* a caller asks for OPEN_DOOR, which would admit the marker, and is answered
\* under the deployment's EMERGENCY_ONLY
C1_Witness ==
    /\ serverPolicy = "EMERGENCY_ONLY"
    /\ Tool = "evaluate_admission"
    /\ Args.policy = "OPEN_DOOR"
    /\ CanDecode(Args.exitMarkerJson)
    /\ evaluateAdmission(fromJSON(Args.exitMarkerJson), OPEN_DOOR).admitted
    /\ Response.admitted = FALSE
    /\ Response.policy = "EMERGENCY_ONLY"

-----------------------------------------------------------------------------
(* C2: with no serverPolicy and no caller policy verify_and_admit evaluates   *)
(* under OPEN_DOOR; an admitted result has had its marker evaluated, and      *)
(* admitted, by the admission engine under exactly one of the three presets.  *)
C2_DefaultOpenDoorNeverNoPolicy ==
    Tool = "verify_and_admit" =>
      /\ (serverPolicy = undefined /\ Args.admissionPolicy = undefined) =>
           /\ \A i \in DOMAIN Calls : Calls[i].policy = "OPEN_DOOR"
           /\ CanDecode(Args.exitMarkerJson) => Evaluations # {}
      /\ (Has(Response, "admitted") /\ Response.admitted) =>
           /\ Cardinality(Evaluations) = 1
           /\ \A i \in Evaluations :
                /\ Calls[i].policy \in PresetNames
                /\ Calls[i].ok
                /\ evaluateAdmission(fromJSON(Args.exitMarkerJson),
                                     admissionPresets(Calls[i].policy)).admitted

C2_Witness ==
    /\ Tool = "verify_and_admit"
    /\ serverPolicy = undefined
    /\ Args.admissionPolicy = undefined
    /\ Has(Response, "admitted")
    /\ Response.admitted
    /\ \E i \in Evaluations : Calls[i].policy = "OPEN_DOOR"

-----------------------------------------------------------------------------
(* C3: a policy name outside the three presets, from the caller or from the   *)
(* CELLAR_DOOR_SERVER_POLICY setting, makes the admission tools answer with   *)
(* an error; the name is never taken as if no policy had been configured.     *)
UnknownName(name) == name # undefined /\ name \notin PresetNames

C3_UnknownPolicyIsAnError ==
    /\ (Tool = "verify_and_admit" /\ UnknownName(Args.admissionPolicy)) =>
         (~Handled \/ IsError)
    /\ (Tool = "evaluate_admission" /\ UnknownName(Args.policy)) =>
         (~Handled \/ IsError)
    /\ (Tool \in {"verify_and_admit", "evaluate_admission"} /\ UnknownName(envPolicy)) =>
         (~Handled \/ IsError)

-----------------------------------------------------------------------------
(* C4: in verify_and_admit quickEntry is called only after evaluateAdmission  *)
(* returned admitted = true for the same marker, and a response that is not   *)
(* admitted carries no arrivalMarker.                                         *)
C4_ArrivalOnlyAfterAdmission ==
    Tool = "verify_and_admit" =>
      /\ \A i \in DOMAIN Calls :
           Calls[i].fn = "quickEntry" =>
             \E j \in 1..(i - 1) :
               /\ Calls[j].fn = "evaluateAdmission"
               /\ Calls[j].ok
               /\ Calls[j].marker = Calls[i].marker
      /\ Has(Response, "arrivalMarker") =>
           /\ Response.admitted
           /\ evaluateAdmission(fromJSON(Args.exitMarkerJson),
                                admissionPresets(policyName(Args.admissionPolicy))).admitted
           /\ Response.arrivalMarker.exitMarkerId = fromJSON(Args.exitMarkerJson).id
      /\ (Has(Response, "admitted") /\ ~Response.admitted) =>
           ~Has(Response, "arrivalMarker")

C4_Witness ==
    /\ Tool = "verify_and_admit"
    /\ Has(Response, "arrivalMarker")
    /\ Len(Calls) = 3
    /\ Calls[2].fn = "evaluateAdmission"
    /\ Calls[2].ok
    /\ Calls[3].fn = "quickEntry"

-----------------------------------------------------------------------------
(* C5: once the session holds an identity, every later quick_exit or          *)
(* create_exit_marker signs with that identity, leaves it in the slot and     *)
(* reports its DID as signerDid.                                              *)
SigningTools == {"quick_exit", "create_exit_marker"}

C5_SigningReusesSessionIdentity ==
    [][(/\ sessionIdentity # NullIdentity
        /\ lastCall' # lastCall
        /\ lastCall'.tool \in SigningTools)
       => (/\ sessionIdentity' = sessionIdentity
           /\ lastCall'.response.signerDid = Identity(sessionIdentity).did
           /\ lastCall'.response.marker.proof.signer = Identity(sessionIdentity).publicKey)]_vars

-----------------------------------------------------------------------------
(* C6: no tool response carries private key material: no response has a       *)
(* privateKey or publicKey field, no identifier in a response is a private    *)
(* key, and generate_identity answers with the DID and a message only.        *)
PrivateKeys == {Identity(k).privateKey : k \in 0..MaxIdentities}
KeyFields == {"privateKey", "publicKey"}
IdentifierFields == {"did", "signerDid", "subject"}

C6_NoPrivateKeyInResponses ==
    /\ KeyFields \cap DOMAIN Response = {}
    /\ \A f \in IdentifierFields : Has(Response, f) => Response[f] \notin PrivateKeys
    /\ Tool = "generate_identity" =>
         /\ DOMAIN Response = {"did", "message"}
         /\ Response.did = Identity(sessionIdentity).did
    /\ Has(Response, "marker") =>
         /\ KeyFields \cap DOMAIN Response.marker = {}
         /\ DOMAIN Response.marker \subseteq RequiredKeys \cup OptionalKeys
         /\ Response.marker.subject \notin PrivateKeys
         /\ Response.marker.origin \notin PrivateKeys
         /\ Response.marker.proof.signer \notin PrivateKeys

\* a second identity generated in a session that had signed with its first
C6_Witness ==
    /\ Tool = "generate_identity"
    /\ sessionIdentity = 2
    /\ Response.did = Identity(2).did
    /\ Has(wire, "proof")

-----------------------------------------------------------------------------
(* C7: a marker the policy rejects, and a transfer with broken continuity,    *)
(* are answered with the structured result and without the error flag; the    *)
(* error flag is set only when decoding or a collaborator threw.               *)
Throwers == {"fromJSON", "JSON.parse", "quickEntry", "verifyTransfer"}

Threw == Calls # <<>> /\ Calls[Len(Calls)].fn \in Throwers /\ ~Calls[Len(Calls)].ok

ResolvedPolicy ==
    IF Tool = "verify_and_admit" THEN policyName(Args.admissionPolicy)
    ELSE effectivePolicy(Args.policy)

C7_RejectionIsAResultNotAnError ==
    /\ (/\ Tool \in {"verify_and_admit", "evaluate_admission"}
        /\ Handled
        /\ CanDecode(Args.exitMarkerJson)
        /\ ~evaluateAdmission(fromJSON(Args.exitMarkerJson),
                              admissionPresets(ResolvedPolicy)).admitted)
       => (/\ ~IsError
           /\ ~Has(Response, "error")
           /\ Response.admitted = FALSE
           /\ Has(Response, "reasons")
           /\ Response.reasons =
                evaluateAdmission(fromJSON(Args.exitMarkerJson),
                                  admissionPresets(ResolvedPolicy)).reasons)
    /\ (/\ Tool = "verify_transfer"
        /\ CanDecode(Args.exitMarkerJson)
        /\ WellFormedArrival(Args.arrivalMarkerJson)
        /\ ~Continuity(fromJSON(Args.exitMarkerJson), Args.arrivalMarkerJson).valid)
       => (/\ ~IsError
           /\ ~Has(Response, "error")
           /\ Response.verified = FALSE
           /\ Response.errors # <<>>
           /\ Response.continuity.valid = FALSE
           /\ Response.continuity.errors # <<>>)
    /\ IsError => Threw

\* both signatures good, the arrival references another exit
C7_Witness ==
    /\ Tool = "verify_transfer"
    /\ ~IsError
    /\ Has(Response, "verified")
    /\ Response.verified = FALSE
    /\ Response.continuity.valid = FALSE
    /\ Response.errors = Response.continuity.errors

-----------------------------------------------------------------------------
(* C8: a text that is no well-formed marker is answered with valid, admitted  *)
(* or verified = false, an error message and the error flag: by               *)
(* verify_exit_marker, verify_and_admit, evaluate_admission, and by           *)
(* verify_transfer for the exit marker text and for the arrival marker text.  *)
C8_DecodeFailureIsFlagged ==
    /\ (Tool = "verify_exit_marker" /\ ~CanDecode(Args.markerJson)) =>
         (IsError /\ Has(Response, "error") /\ Response.valid = FALSE)
    /\ (/\ Tool \in {"verify_and_admit", "evaluate_admission"}
        /\ Handled
        /\ ~CanDecode(Args.exitMarkerJson)) =>
         (IsError /\ Has(Response, "error") /\ Response.admitted = FALSE)
    /\ (/\ Tool = "verify_transfer"
        /\ \/ ~CanDecode(Args.exitMarkerJson)
           \/ ~WellFormedArrival(Args.arrivalMarkerJson)) =>
         (IsError /\ Has(Response, "error") /\ Response.verified = FALSE)

-----------------------------------------------------------------------------
(* C9: in the result evaluate_admission and verify_and_admit pass on, reasons *)
(* is empty iff admitted is true: a rejection always carries at least one     *)
(* reason and an admission none.                                              *)
C9_ReasonsEmptyIffAdmitted ==
    (Tool \in {"verify_and_admit", "evaluate_admission"} /\ Handled /\ ~IsError) =>
      /\ Has(Response, "reasons") => (Response.admitted <=> Response.reasons = <<>>)
      /\ ~Response.admitted => (Has(Response, "reasons") /\ Response.reasons # <<>>)
      /\ Tool = "evaluate_admission" => Has(Response, "reasons")
      /\ Response.admitted =
           evaluateAdmission(fromJSON(Args.exitMarkerJson),
                             admissionPresets(ResolvedPolicy)).admitted

C9_Witness ==
    /\ Tool = "evaluate_admission"
    /\ Has(Response, "reasons")
    /\ ~Response.admitted
    /\ Len(Response.reasons) = 1

-----------------------------------------------------------------------------
(* C10: reasons lists every violated check once, in the order signature,      *)
(* exit type, age, required modules; a marker that violates allowedExitTypes  *)
(* and maxAgeSeconds under STRICT gets "exit type not permitted" and then     *)
(* "marker expired".                                                          *)
Checks ==
    <<"signature invalid", "exit type not permitted", "marker expired",
      "missing required module: lineage", "missing required module: stateSnapshot">>

Requires(policy, name) ==
    \E i \in DOMAIN policy.requiredModules : policy.requiredModules[i] = name

Violates(m, policy, check) ==
    CASE check = "signature invalid" ->
            policy.requireVerifiedDeparture /\ ~verifyMarker(m)
      [] check = "exit type not permitted" ->
            policy.allowedExitTypes # {} /\ m.exitType \notin policy.allowedExitTypes
      [] check = "marker expired" ->
            policy.hasMaxAge /\ now - m.timestamp > policy.maxAgeSeconds
      [] check = "missing required module: lineage" ->
            Requires(policy, "lineage") /\ m.lineage = undefined
      [] check = "missing required module: stateSnapshot" ->
            Requires(policy, "stateSnapshot") /\ m.stateSnapshot = undefined

ViolatedChecks(m, policy) ==
    LET Violated(check) == Violates(m, policy, check)
    IN  SelectSeq(Checks, Violated)

C10_ReasonsAccumulateInOrder ==
    (/\ Tool \in {"verify_and_admit", "evaluate_admission"}
     /\ Handled
     /\ CanDecode(Args.exitMarkerJson)) =>
      LET m      == fromJSON(Args.exitMarkerJson)
          policy == admissionPresets(ResolvedPolicy)
      IN  /\ Has(Response, "reasons") => Response.reasons = ViolatedChecks(m, policy)
          /\ ViolatedChecks(m, policy) # <<>> => Has(Response, "reasons")
          /\ (/\ ResolvedPolicy = "STRICT"
              /\ m.exitType # "Voluntary"
              /\ now - m.timestamp > 24 * 3600) =>
               \E i, j \in DOMAIN Response.reasons :
                 /\ i < j
                 /\ Response.reasons[i] = "exit type not permitted"
                 /\ Response.reasons[j] = "marker expired"

\* a validly signed Emergency marker with both modules, 48 hours old, under STRICT
C10_Witness ==
    /\ Tool = "verify_and_admit"
    /\ ResolvedPolicy = "STRICT"
    /\ Has(Response, "reasons")
    /\ Response.reasons = <<"exit type not permitted", "marker expired">>

-----------------------------------------------------------------------------
(* C11: under STRICT a marker is admitted iff its signature verifies, its     *)
(* exitType is Voluntary, now - timestamp is at most 24 hours and lineage and *)
(* stateSnapshot are both present; such a marker is admitted with no reasons, *)
(* a marker aged 48 hours is rejected with "marker expired", an Emergency     *)
(* marker is rejected with the exit-type reason, and a validly signed         *)
(* Emergency marker is admitted under EMERGENCY_ONLY.                         *)
InSeq(x, s) == \E i \in DOMAIN s : s[i] = x

StrictAdmits(m) ==
    /\ verifyMarker(m)
    /\ m.exitType = "Voluntary"
    /\ now - m.timestamp <= 24 * 3600
    /\ m.lineage # undefined
    /\ m.stateSnapshot # undefined

-----------------------------------------------------------------------------
(* C12: continuity is judged independently of the signatures: when the       *)
(* arrival's exitMarkerId differs from the exit marker's id verify_transfer  *)
(* answers continuity.valid = false with the reference-mismatch error, and   *)
(* when the arrival's timestamp is earlier than the exit's it answers        *)
(* continuity.valid = false with "arrival precedes departure", whether or    *)
(* not the two signatures verify.                                            *)
C12_ContinuityIndependentOfSignatures ==
    (/\ Tool = "verify_transfer"
     /\ CanDecode(Args.exitMarkerJson)
     /\ WellFormedArrival(Args.arrivalMarkerJson)) =>
      LET exitMarker == fromJSON(Args.exitMarkerJson)
          a          == Args.arrivalMarkerJson
      IN  /\ ~IsError
          /\ a.exitMarkerId # exitMarker.id =>
               /\ Response.continuity.valid = FALSE
               /\ InSeq("arrival does not reference this exit",
                        Response.continuity.errors)
          /\ a.timestamp < exitMarker.timestamp =>
               /\ Response.continuity.valid = FALSE
               /\ InSeq("arrival precedes departure", Response.continuity.errors)

\* both signatures verify, the arrival references the exit and predates it
C12_Witness ==
    /\ Tool = "verify_transfer"
    /\ CanDecode(Args.exitMarkerJson)
    /\ verifyMarker(fromJSON(Args.exitMarkerJson))
    /\ verifyArrival(Args.arrivalMarkerJson)
    /\ Args.arrivalMarkerJson.exitMarkerId = Args.exitMarkerJson.id
    /\ Args.arrivalMarkerJson.timestamp < Args.exitMarkerJson.timestamp
    /\ Response.continuity.valid = FALSE
    /\ Response.errors = <<"arrival precedes departure">>

-----------------------------------------------------------------------------
(* C13: in every TransferRecord verify_transfer returns, continuity.valid is *)
(* true iff neither the reference check nor the ordering check failed, and   *)
(* verified is true iff the exit signature verifies, the arrival signature   *)
(* verifies and continuity.valid is true; verified = true never comes with a *)
(* non-empty errors list or with continuity.valid = false.                   *)
ReferenceFails(exitMarker, a) ==
    ~Has(a, "exitMarkerId") \/ a.exitMarkerId # exitMarker.id

OrderingFails(exitMarker, a) ==
    Has(a, "timestamp") /\ a.timestamp < exitMarker.timestamp

C13_VerifiedIffAllChecksPass ==
    (Tool = "verify_transfer" /\ ~IsError) =>
      LET exitMarker == fromJSON(Args.exitMarkerJson)
          a          == Args.arrivalMarkerJson
      IN  /\ Response.continuity.valid <=>
               (~ReferenceFails(exitMarker, a) /\ ~OrderingFails(exitMarker, a))
          /\ Response.continuity.valid <=> Response.continuity.errors = <<>>
          /\ Response.verified <=>
               (/\ verifyMarker(exitMarker)
                /\ verifyArrival(a)
                /\ Response.continuity.valid)
          /\ Response.verified => (Response.errors = <<>> /\ Response.continuity.valid)

\* both signatures verify and the arrival references another exit
C13_Witness ==
    /\ Tool = "verify_transfer"
    /\ ~IsError
    /\ verifyMarker(fromJSON(Args.exitMarkerJson))
    /\ verifyArrival(Args.arrivalMarkerJson)
    /\ Args.arrivalMarkerJson.exitMarkerId # Args.exitMarkerJson.id
    /\ Response.verified = FALSE
    /\ Response.continuity.valid = FALSE

\* a transfer that verifies
C13_WitnessVerified ==
    /\ Tool = "verify_transfer"
    /\ ~IsError
    /\ Response.verified
    /\ Response.errors = <<>>

-----------------------------------------------------------------------------
(* C14: the marker a signing tool returns, decoded again, has the field      *)
(* values of the marker that was signed and verifies; verify_exit_marker on  *)
(* the returned text answers valid = true with the marker's fields; and      *)
(* quick_exit reports verified = true for the marker it signed.              *)
\* the marker the signing tool of the step built and signed
SignedInStep ==
    LET a == lastCall'.args
    IN  IF lastCall'.tool = "quick_exit"
        THEN quickExit(a.origin, a.exitType, a.reason, nextId').marker
        ELSE signMarker(createMarker(a.origin, a.origin,
                                     IF a.exitType = undefined THEN "Voluntary"
                                     ELSE a.exitType,
                                     undefined, undefined, undefined),
                        Identity(sessionIdentity').privateKey,
                        Identity(sessionIdentity').publicKey)

-----------------------------------------------------------------------------
(* C15: a marker as its key pair signed it verifies; a signed marker with    *)
(* any one of id, subject, origin, exitType, timestamp, reason, lineage or   *)
(* stateSnapshot changed is reported valid = false by verify_exit_marker and *)
(* is rejected with "signature invalid" under every policy that requires a   *)
(* verified departure.                                                       *)
MarkerFields ==
    {"id", "subject", "origin", "exitType", "timestamp", "reason", "lineage",
     "stateSnapshot"}

\* the field of a decodable marker text no longer is what was signed
Altered(j, field) == fromJSON(j)[field] # j.proof.over[field]

AsSigned(j) == \A field \in MarkerFields : ~Altered(j, field)

C15_SignedMarkerIsImmutable ==
    /\ (Tool = "verify_exit_marker" /\ CanDecode(Args.markerJson)) =>
         /\ ~IsError
         /\ AsSigned(Args.markerJson) => Response.valid = TRUE
         /\ \A field \in MarkerFields :
              Altered(Args.markerJson, field) => Response.valid = FALSE
    /\ (/\ Tool \in {"verify_and_admit", "evaluate_admission"}
        /\ Handled
        /\ CanDecode(Args.exitMarkerJson)
        /\ admissionPresets(ResolvedPolicy).requireVerifiedDeparture) =>
         \A field \in MarkerFields :
           Altered(Args.exitMarkerJson, field) =>
             /\ Response.admitted = FALSE
             /\ Has(Response, "reasons")
             /\ InSeq("signature invalid", Response.reasons)

\* a reason written into a marker that was signed without one
C15_Witness ==
    /\ Tool = "verify_exit_marker"
    /\ CanDecode(Args.markerJson)
    /\ Altered(Args.markerJson, "reason")
    /\ \A field \in MarkerFields \ {"reason"} : ~Altered(Args.markerJson, field)
    /\ Response.valid = FALSE

-----------------------------------------------------------------------------
(* C16: whenever verify_and_admit answers admitted = true, the arrival       *)
(* marker in the response references the exit marker that was submitted and  *)
(* evaluated, and continuity.valid is true.                                  *)
C16_AdmittedHasValidContinuity ==
    (Tool = "verify_and_admit" /\ Has(Response, "admitted") /\ Response.admitted) =>
      /\ Response.arrivalMarker.exitMarkerId = fromJSON(Args.exitMarkerJson).id
      /\ Response.exitMarkerId = fromJSON(Args.exitMarkerJson).id
      /\ \A i \in DOMAIN Calls : Calls[i].marker = fromJSON(Args.exitMarkerJson).id
      /\ Response.continuity.valid = TRUE

-----------------------------------------------------------------------------
(* C17: a session starts with an empty identity slot, and an identity        *)
(* generated in one session never signs and is never reported as did or      *)
(* signerDid in another, a later session after the first ended included.     *)
\* identity k was generated in the session now being served
OfThisSession(k) == k > sessionBase /\ k <= nextId

DidsOfThisSession == {Identity(k).did : k \in (sessionBase + 1)..nextId}

C17_IdentityStaysInItsSession ==
    /\ sessionIdentity # NullIdentity => OfThisSession(sessionIdentity)
    /\ nextId = sessionBase => sessionIdentity = NullIdentity
    /\ \A i \in DOMAIN pending : OfThisSession(pending[i].signed.proof.by)
    /\ Tool = "generate_identity" => Response.did \in DidsOfThisSession
    /\ Tool \in SigningTools =>
         /\ Response.signerDid \in DidsOfThisSession
         /\ OfThisSession(Response.marker.proof.by)

\* the second session signs with an identity of its own
C17_Witness ==
    /\ sessionBase = 1
    /\ Tool = "create_exit_marker"
    /\ sessionIdentity = 2
    /\ Response.signerDid = Identity(2).did
    /\ Response.marker.proof.by = 2

-----------------------------------------------------------------------------
(* C18: when create_exit_marker requests overlap in a session that began     *)
(* with an empty slot, exactly one identity is generated and every one of    *)
(* the requests signs with it.                                               *)
C18_OneIdentityForOverlappingCalls ==
    /\ nextId <= 1
    /\ (pending # <<>> \/ Tool = "create_exit_marker") =>
         /\ nextId = 1
         /\ sessionIdentity = 1
         /\ \A i \in DOMAIN pending :
              /\ pending[i].signed.proof.by = 1
              /\ pending[i].signed.proof.signer = Identity(1).publicKey
              /\ verifyMarker(pending[i].signed)
    /\ Tool = "create_exit_marker" =>
         /\ Response.marker.proof.by = 1
         /\ Response.marker.proof.signer = Identity(1).publicKey
         /\ Response.signerDid = Identity(1).did

\* two requests suspended at the await after a third has returned
C18_Witness ==
    /\ Len(pending) = 2
    /\ pending[1].signed.proof.by = 1
    /\ pending[2].signed.proof.by = 1
    /\ Tool = "create_exit_marker"
    /\ Response.signerDid = Identity(1).did
    /\ nextId = 1

-----------------------------------------------------------------------------
(* C19: the signerDid create_exit_marker reports is the DID of the identity  *)
(* whose private key signed the marker it returns, also when generate_identity *)
(* or quick_exit replaced the session identity while the request was         *)
(* suspended at the await.                                                   *)
C19_SignerDidIsTheSigner ==
    Tool = "create_exit_marker" =>
      /\ Response.signerDid = Identity(Response.marker.proof.by).did
      /\ Response.marker.proof.signer = Identity(Response.marker.proof.by).publicKey

-----------------------------------------------------------------------------
(* C20: verify_exit_marker, evaluate_admission, verify_and_admit,            *)
(* verify_transfer and list_admission_policies leave the session identity    *)
(* slot as it was, whether they succeed, report a negative result or fail    *)
(* with an error.                                                            *)
VerificationTools ==
    {"verify_exit_marker", "evaluate_admission", "verify_and_admit", "verify_transfer",
     "list_admission_policies"}

C20_VerificationToolsKeepTheSlot ==
    [][(lastCall' # lastCall /\ lastCall'.tool \in VerificationTools)
       => (/\ sessionIdentity' = sessionIdentity
           /\ nextId' = nextId
           /\ pending' = pending)]_vars

\* a session that holds an identity gets an error from verify_exit_marker
C20_Witness ==
    /\ sessionIdentity # NullIdentity
    /\ Tool = "verify_exit_marker"
    /\ IsError

\* the same session gets a rejection from verify_and_admit
C20_WitnessRejected ==
    /\ sessionIdentity # NullIdentity
    /\ Tool = "verify_and_admit"
    /\ ~IsError
    /\ Has(Response, "reasons")
    /\ Response.admitted = FALSE

-----------------------------------------------------------------------------
(* C21: the signed marker create_exit_marker returns carries the caller's    *)
(* arguments: subject and origin are the supplied origin, exitType is the    *)
(* supplied exitType (Voluntary when omitted), and reason is the supplied    *)
(* reason when one is given.                                                 *)
C21_MarkerCarriesTheArguments ==
    Tool = "create_exit_marker" =>
      /\ Has(Response.marker, "proof")
      /\ Response.marker.subject = Args.origin
      /\ Response.marker.origin = Args.origin
      /\ Response.marker.exitType =
           (IF Args.exitType = undefined THEN "Voluntary" ELSE Args.exitType)
      /\ Args.reason # undefined =>
           (Has(Response.marker, "reason") /\ Response.marker.reason = Args.reason)

====
